---------------------------- MODULE Spec2Model ----------------------------
(***************************************************************************)
(* Model of the sdwan-webhook-sse relay (src/src/server.ts): the bounded   *)
(* event cache with its id counter, the set of SSE clients, the POST       *)
(* ingestion handler with its size-limited body read, the GET handlers     *)
(* (SSE session and JSON snapshot), the ping timer, the request close      *)
(* handler and the SIGTERM handler.                                        *)
(*                                                                         *)
(* Node runs every callback to completion on one thread.  Each action      *)
(* below is one such callback (or one run of an async handler between two  *)
(* awaits); the environment chooses which callback runs next.              *)
(***************************************************************************)
EXTENDS Integers, Sequences, FiniteSets

\* ---------------------------------------------------------------- constants
\* server.ts:20
MAX_CACHE == 100
\* server.ts:117, limitBytes = 2 * 1024 * 1024
LimitBytes == 2 * 1024 * 1024
\* sendSseEvent's optional id parameter when it is not passed (id == null)
Null == -1

\* ------------------------------------------------------------------- bounds
\* POST request slots that may be in flight at once
NumReqs == 2
\* POST requests started over a run
MaxPosts == 2
\* ping timer firings over a run
MaxPings == 1

Reqs == 1 .. NumReqs
\* SSE connections over a run: two, so that a write to one can fail while
\* the other is served
Sess == {1, 2}

\* Events already ingested when the model starts: a fresh process, or one
\* that has accepted MAX_CACHE - 1 webhooks while nobody was connected.
Prefills == {0, MAX_CACHE - 1}

\* Sizes of the chunks a request body arrives in: a chunk that fills the limit
\* exactly and one that passes it by a byte; two chunks that each fit pass it
\* together.
ChunkSizes == {LimitBytes, LimitBytes + 1}

\* What a webhook sender can post: declared content type and body text, one
\* text that is JSON and one that is not.
Payloads ==
  { [ctype |-> "application/json", text |-> "null"],
    [ctype |-> "application/json", text |-> "not-json"] }

VARIABLES
  nextId,     \* server.ts:25
  cache,      \* server.ts:26, oldest first
  clients,    \* server.ts:27, a JS Set: its elements in insertion order
  pc,         \* per POST slot: "idle" or "reading" (inside readBody)
  total,      \* per POST slot: readBody's byte count
  reply,      \* the latest answer to a POST: status, error caught, req destroyed
  st,         \* per SSE connection: "none", "streaming", "ended", "closed"
  timer,      \* per SSE connection: its pingTimer interval is running
  sink,       \* per SSE connection: res is "none", "open", "stalled" (its socket
              \* takes no more bytes), "broken", "ended", "closed"
  out,        \* per SSE connection: the chunks res.write accepted, in order
  shutdown,   \* SIGTERM handled, server.close() called
  appended,   \* history: every event pushCache received, in order
  tried,      \* history: per SSE connection, ids broadcast tried to write to it
  regAt,      \* history: per SSE connection, Len(appended) when clients.add ran
  posts,      \* number of POST requests started
  gate,       \* server.ts:22-23, BASIC_USER and BASIC_PASS of the environment
  gateLog     \* what requireAuthIfConfigured did with the latest request

vars == << nextId, cache, clients, pc, total, reply,
           st, timer, sink, out, shutdown, appended, tried, regAt,
           posts, gate, gateLog >>

storeVars == << nextId, cache, appended >>
postVars  == << pc, total, reply, posts >>
sessVars  == << clients, st, timer, sink, out, tried, regAt >>
gateVars  == << gate, gateLog >>

\* ------------------------------------------------------------------ helpers
Min(a, b) == IF a < b THEN a ELSE b

\* s[from..] of a sequence, 1-based
DropFirst(s, n) == SubSeq(s, n + 1, Len(s))
LastN(s, n) == DropFirst(s, Len(s) - Min(n, Len(s)))

\* Set.delete on the insertion-ordered set
RECURSIVE SetDelete(_, _)
SetDelete(cl, x) ==
  IF cl = << >> THEN << >>
  ELSE IF Head(cl) = x THEN SetDelete(Tail(cl), x)
  ELSE << Head(cl) >> \o SetDelete(Tail(cl), x)

\* Set.add on the insertion-ordered set
SetAdd(cl, x) == IF \E i \in 1 .. Len(cl) : cl[i] = x THEN cl ELSE Append(cl, x)

Members(cl) == { cl[i] : i \in 1 .. Len(cl) }

\* --------------------------------------------------------------- the store
\* pushCache: push, then shift while over capacity
RECURSIVE ShiftWhileOver(_)
ShiftWhileOver(c) == IF Len(c) > MAX_CACHE THEN ShiftWhileOver(Tail(c)) ELSE c

\* pushCache with pop in place of shift: the entry just pushed is evicted
pushCache_Pop(c, e) ==
  IF Len(c) >= MAX_CACHE THEN SubSeq(Append(c, e), 1, MAX_CACHE) ELSE Append(c, e)

\* pushCache with unshift in place of push: the new entry goes to the front
pushCache_Unshift(c, e) == ShiftWhileOver(<< e >> \o c)

\* a handler that skips pushCache
pushCache_Skip(c, e) == c

\* pushCache without the eviction loop
pushCache_NoShift(c, e) == Append(c, e)

pushCache(c, e) == ShiftWhileOver(Append(c, e))

\* The text JSON.parse is given (server.ts:217): raw || "null"
ParseInput(text) == IF text = "" THEN "null" ELSE text

\* Which of the texts posted JSON.parse accepts.  A parsed value is kept as
\* the text it was parsed from.
JsonParses(text) == text \in {"null", "{\"a\":1}"}

\* The record stored for a JSON body that does not parse (server.ts:219)
ParseFallback(text) == [_parseError |-> "invalid json", raw |-> text]

\* a fallback record that forgets the text it could not parse
EventBody_DropsRaw(ctype, text) ==
  IF ctype = "application/json"
  THEN IF JsonParses(ParseInput(text))
       THEN [json |-> ParseInput(text)]
       ELSE ParseFallback("")
  ELSE [text |-> text]

\* The body the POST handler stores (server.ts:213-221)
EventBody(ctype, text) ==
  IF ctype = "application/json"
  THEN IF JsonParses(ParseInput(text))
       THEN [json |-> ParseInput(text)]
       ELSE ParseFallback(text)
  ELSE [text |-> text]

\* The fields of a StoredEvent the relay itself decides (receivedAt, sourceIp
\* and headers are copied from the clock and the request)
StoredEvent(id, body) == [id |-> id, body |-> body]

\* The events a process that accepted n webhooks has been through
PrefillEvent(i) == StoredEvent(i, EventBody("application/json", "{\"a\":1}"))
PrefillLog(n) == [i \in 1 .. n |-> PrefillEvent(i)]

\* ------------------------------------------------------------------ SSE I/O
\* sendSseEvent writing the id line whether or not an id was passed
FrameChunks_AlwaysId(event, data, id) ==
  << [kind |-> "id", id |-> id],
     [kind |-> "event", event |-> event],
     [kind |-> "data", data |-> data],
     [kind |-> "blank"] >>

\* The chunks sendSseEvent hands to res.write for one frame.  JSON.stringify
\* without indentation yields one line, so there is one data chunk.
FrameChunks(event, data, id) ==
  (IF id # Null THEN << [kind |-> "id", id |-> id] >> ELSE << >>)
  \o << [kind |-> "event", event |-> event],
        [kind |-> "data", data |-> data],
        [kind |-> "blank"] >>

\* a res.write that refuses a chunk the socket cannot take at once
Writable_OpenOnly(sk) == sk = "open"

\* Whether res.write accepts a chunk: on a stalled socket it keeps the chunk
\* in the response's buffer and returns false, which no caller looks at
\* (server.ts:93-97, 254).
Writable(sk) == sk \in {"open", "stalled"}

\* sendSseEvent on a response whose state is sk and that holds o so far: the
\* first res.write throws on a response that does not accept chunks.
sendSseEvent(sk, o, event, data, id) ==
  IF Writable(sk)
  THEN [out |-> o \o FrameChunks(event, data, id), threw |-> FALSE]
  ELSE [out |-> o, threw |-> TRUE]

\* broadcast: for each client in insertion order, try sendSseEvent and ignore
\* what it throws.  acc carries out, tried and whether broadcast itself threw.
RECURSIVE BroadcastFrom(_, _, _, _, _, _, _)
BroadcastFrom(i, cl, sk, acc, event, data, id) ==
  IF i > Len(cl) THEN acc
  ELSE LET c == cl[i]
           r == sendSseEvent(sk[c], acc.out[c], event, data, id)
       IN BroadcastFrom(i + 1, cl, sk,
            [out   |-> [acc.out EXCEPT ![c] = r.out],
             tried |-> [acc.tried EXCEPT ![c] = Append(@, id)],
             threw |-> FALSE],
            event, data, id)

\* broadcast without the try/catch: the first throw ends the loop and
\* reaches the caller
RECURSIVE BroadcastFrom_NoCatch(_, _, _, _, _, _, _)
BroadcastFrom_NoCatch(i, cl, sk, acc, event, data, id) ==
  IF i > Len(cl) THEN acc
  ELSE LET c == cl[i]
           r == sendSseEvent(sk[c], acc.out[c], event, data, id)
           a == [out   |-> [acc.out EXCEPT ![c] = r.out],
                 tried |-> [acc.tried EXCEPT ![c] = Append(@, id)],
                 threw |-> r.threw]
       IN IF r.threw THEN a
          ELSE BroadcastFrom_NoCatch(i + 1, cl, sk, a, event, data, id)

broadcast_NoCatch(cl, sk, o, tr, event, data, id) ==
  BroadcastFrom_NoCatch(1, cl, sk, [out |-> o, tried |-> tr, threw |-> FALSE],
                        event, data, id)

\* broadcast that passes over clients whose response is not open
RECURSIVE OpenOnly(_, _)
OpenOnly(cl, sk) ==
  IF cl = << >> THEN << >>
  ELSE (IF sk[Head(cl)] = "open" THEN << Head(cl) >> ELSE << >>)
       \o OpenOnly(Tail(cl), sk)

broadcast_SkipBroken(cl, sk, o, tr, event, data, id) ==
  BroadcastFrom(1, OpenOnly(cl, sk), sk,
                [out |-> o, tried |-> tr, threw |-> FALSE], event, data, id)

broadcast(cl, sk, o, tr, event, data, id) ==
  BroadcastFrom(1, cl, sk, [out |-> o, tried |-> tr, threw |-> FALSE],
                event, data, id)

\* ----------------------------------------------------------------- the gate
\* Texts the gate looks into are sequences of characters.
\* BASIC_USER and BASIC_PASS unset (server.ts:22-23)
Unconfigured == [user |-> << >>, pass |-> << >>]
\* BASIC_USER=u BASIC_PASS=p
Configured == [user |-> << "u" >>, pass |-> << "p" >>]

\* An Authorization header: the scheme word before the space and the text
\* its base64 part decodes to.  No header reads as the empty string.
NoHeader == [scheme |-> "", decoded |-> << >>]

AuthHeaders ==
  { NoHeader,
    [scheme |-> "Bearer", decoded |-> << "u", ":", "p" >>],
    [scheme |-> "Basic",  decoded |-> << "u", ":", "p" >>],
    [scheme |-> "Basic",  decoded |-> << "u", ":", "x" >>],
    [scheme |-> "Basic",  decoded |-> << "x", ":", "p" >>],
    [scheme |-> "Basic",  decoded |-> << "u", "p" >>] }

\* The headers requests come with.  Without BASIC_USER and BASIC_PASS the
\* gate returns before it reads the header (server.ts:59), so the header is
\* no input of the program then.
Presented(g) == IF g = Unconfigured THEN {NoHeader} ELSE AuthHeaders

\* String.toLowerCase on the scheme word
ToLower(w) ==
  CASE w = "Basic"  -> "basic"
    [] w = "BASIC"  -> "basic"
    [] w = "Bearer" -> "bearer"
    [] OTHER        -> w

\* String.indexOf for one character: 0-based, -1 when absent
RECURSIVE IndexOf(_, _)
IndexOf(t, ch) ==
  IF t = << >> THEN -1
  ELSE IF Head(t) = ch THEN 0
  ELSE LET i == IndexOf(Tail(t), ch) IN IF i < 0 THEN -1 ELSE i + 1

\* parseBasicAuth (server.ts:44-56); ok is FALSE where it returns null
parseBasicAuth(h) ==
  IF ToLower(h.scheme) # "basic" THEN [ok |-> FALSE]
  ELSE LET idx == IndexOf(h.decoded, ":") IN
         IF idx < 0 THEN [ok |-> FALSE]
         ELSE [ok   |-> TRUE,
               user |-> SubSeq(h.decoded, 1, idx),
               pass |-> SubSeq(h.decoded, idx + 2, Len(h.decoded))]

\* a gate that compares the user name only
requireAuthIfConfigured_UserOnly(g, h) ==
  IF g.user = << >> /\ g.pass = << >> THEN TRUE
  ELSE LET cred == parseBasicAuth(h) IN
         ~(~cred.ok \/ cred.user # g.user)

\* requireAuthIfConfigured (server.ts:58-68): whether the request goes on
requireAuthIfConfigured(g, h) ==
  IF g.user = << >> /\ g.pass = << >> THEN TRUE
  ELSE LET cred == parseBasicAuth(h) IN
         ~(~cred.ok \/ cred.user # g.user \/ cred.pass # g.pass)

\* What the gate did with a request: the header it was given, whether the
\* request went on, and the response it wrote when it did not
\* (server.ts:62-64).
GateLog(h, passed) ==
  [seen |-> TRUE, auth |-> h, passed |-> passed,
   status |-> IF passed THEN 0 ELSE 401,
   challenge |-> IF passed THEN "" ELSE "Basic realm=\"sdwan-webhook\"",
   body |-> IF passed THEN "" ELSE "Unauthorized"]

\* No request has come yet
NoRequest ==
  [seen |-> FALSE, auth |-> NoHeader, passed |-> TRUE,
   status |-> 0, challenge |-> "", body |-> ""]

\* The first statement of the request handler (server.ts:190) letting a
\* request on to its route
Admit ==
  \E h \in Presented(gate) :
    /\ requireAuthIfConfigured(gate, h)
    /\ gateLog' = GateLog(h, TRUE)
    /\ gate' = gate

\* --------------------------------------------------------------------- Init
\* An answer to a POST: the status code written, the error the handler's
\* catch block was given ("" when it did not run), and whether the request's
\* connection was down by then (the sender then sees the connection fail,
\* not the status).
Reply(code, err, gone) == [status |-> code, err |-> err, destroyed |-> gone]
NoReply == Reply(0, "", FALSE)

\* The process after n accepted webhooks and no connection
InitAfter(n) ==
  /\ nextId = n + 1
  /\ cache = PrefillLog(n)
  /\ appended = PrefillLog(n)
  /\ clients = << >>
  /\ pc = [r \in Reqs |-> "idle"]
  /\ total = [r \in Reqs |-> 0]
  /\ reply = NoReply
  /\ st = [s \in Sess |-> "none"]
  /\ timer = [s \in Sess |-> FALSE]
  /\ sink = [s \in Sess |-> "none"]
  /\ out = [s \in Sess |-> << >>]
  /\ shutdown = FALSE
  /\ tried = [s \in Sess |-> << >>]
  /\ regAt = [s \in Sess |-> 0]
  /\ posts = 0
  /\ gateLog = NoRequest

\* A process that has just started (server.ts:25-27), without the gate
Init == InitAfter(0) /\ gate = Unconfigured

\* A process that has just started, or one whose cache is one short of full
InitWarm == (\E n \in Prefills : InitAfter(n)) /\ gate = Unconfigured

\* A process started with BASIC_USER and BASIC_PASS set
InitAuth == InitAfter(0) /\ gate = Configured

\* ------------------------------------------------------------ process exit
\* server.close's callback calls process.exit(0) once every connection has
\* ended (server.ts:305); nothing runs after it.
Drained ==
  /\ \A s \in Sess : st[s] \in {"none", "closed"}
  /\ \A r \in Reqs : pc[r] # "reading"

Exited == shutdown /\ Drained

\* ------------------------------------------------------------ POST handler
\* Node runs the continuation of `await readBody(req)` as a microtask of the
\* callback that settled the promise, before any other event is handled, so
\* the listener that settles readBody and the rest of the handler are one
\* action.

\* A POST to PATH arrives: the handler runs up to `await readBody(req)`
\* (server.ts:187-212).  Slots are taken lowest first.
PostStart(r) ==
  /\ ~shutdown
  /\ Admit
  /\ posts < MaxPosts
  /\ pc[r] = "idle"
  /\ \A q \in Reqs : q < r => pc[q] = "reading"
  /\ pc' = [pc EXCEPT ![r] = "reading"]
  /\ total' = [total EXCEPT ![r] = 0]
  /\ posts' = posts + 1
  /\ UNCHANGED << storeVars, sessVars, reply, shutdown >>

\* the size test applied to the chunk instead of the running total
OverLimit_ChunkOnly(t, chunk) == chunk > LimitBytes

\* readBody's size test (server.ts:123)
OverLimit(t, chunk) == t > LimitBytes

\* What the request handler's catch block answers (server.ts:287-292): no
\* header has been sent on a POST response, so the status is 500.
CatchStatus == 500

\* readBody's "data" listener (server.ts:121-129); past the limit it rejects
\* and destroys the request, and the handler's catch block answers.
PostData(r, n) ==
  /\ ~Exited
  /\ pc[r] = "reading"
  /\ LET t == total[r] + n IN
       IF OverLimit(t, n)
       THEN /\ pc' = [pc EXCEPT ![r] = "idle"]
            /\ total' = [total EXCEPT ![r] = 0]
            /\ reply' = Reply(CatchStatus, "Payload too large", TRUE)
       ELSE /\ total' = [total EXCEPT ![r] = t]
            /\ UNCHANGED << pc, reply >>
  /\ UNCHANGED << storeVars, sessVars, posts, shutdown, gateVars >>

\* readBody's "error" listener (server.ts:131): the sender's connection
\* failed; readBody rejects and the catch block answers.
PostError(r) ==
  /\ ~Exited
  /\ pc[r] = "reading"
  /\ pc' = [pc EXCEPT ![r] = "idle"]
  /\ total' = [total EXCEPT ![r] = 0]
  /\ reply' = Reply(CatchStatus, "request error", TRUE)
  /\ UNCHANGED << storeVars, sessVars, posts, shutdown, gateVars >>

\* The text readBody resolved with: nothing when no byte arrived
RawText(t, p) == IF t = 0 THEN "" ELSE p.text

\* nextId++ evaluated twice for one event
AfterTake_Twice(n) == n + 2

\* the id read without the increment
AfterTake_Never(n) == n

\* nextId++ (server.ts:223): the counter after an id was taken
AfterTake(n) == n + 1

\* What the handler answers once broadcast returned (server.ts:235-236) or
\* threw (server.ts:287-292)
AckStatus(threw) == IF threw THEN CatchStatus ELSE 204

\* The error the catch block is given when a write throws out of broadcast
AckError(threw) == IF threw THEN "write error" ELSE ""

\* readBody's "end" listener (server.ts:130) and the handler after
\* `await readBody(req)` (server.ts:213-237).  The request's content type and
\* text are first looked at here.
PostEnd(r, p) ==
  /\ ~Exited
  /\ pc[r] = "reading"
  /\ pc' = [pc EXCEPT ![r] = "idle"]
  /\ total' = [total EXCEPT ![r] = 0]
  /\ LET id == nextId
         e  == StoredEvent(id, EventBody(p.ctype, RawText(total[r], p)))
         b  == broadcast(clients, sink, out, tried, "alarm", e, id)
     IN /\ nextId' = AfterTake(nextId)
        /\ cache' = pushCache(cache, e)
        /\ appended' = Append(appended, e)
        /\ out' = b.out
        /\ tried' = b.tried
        /\ reply' = Reply(AckStatus(b.threw), AckError(b.threw), FALSE)
  /\ UNCHANGED << clients, st, timer, sink, regAt, posts, shutdown, gateVars >>

\* ------------------------------------------------------------- GET handlers
\* a snapshot that misses the newest cached event
SnapshotData_Stale(c) ==
  [items |-> IF c = << >> THEN c ELSE SubSeq(c, 1, Len(c) - 1)]

\* cache.slice() wrapped as the handlers send it (server.ts:250, 272)
SnapshotData(c) == [items |-> c]

\* GET with Accept: text/event-stream (server.ts:241-269).  The handler has no
\* await: the snapshot frame, the timer and clients.add are one callback.  The
\* response of a request that has just arrived is open.  Connections are
\* numbered in the order they arrive.
Connect(s) ==
  /\ ~shutdown
  /\ Admit
  /\ st[s] = "none"
  /\ \A q \in Sess : q < s => st[q] # "none"
  /\ st' = [st EXCEPT ![s] = "streaming"]
  /\ sink' = [sink EXCEPT ![s] = "open"]
  /\ out' = [out EXCEPT ![s] =
       sendSseEvent("open", << >>, "snapshot", SnapshotData(cache), Null).out]
  /\ timer' = [timer EXCEPT ![s] = TRUE]
  /\ clients' = SetAdd(clients, s)
  /\ regAt' = [regAt EXCEPT ![s] = Len(appended)]
  /\ UNCHANGED << storeVars, postVars, tried, shutdown >>

\* GET with Accept: application/json (server.ts:271-274): answers
\* SnapshotData(cache) and changes nothing.
GetJson ==
  /\ ~shutdown
  /\ Admit
  /\ UNCHANGED << storeVars, postVars, sessVars, shutdown >>

\* A request of any route that the gate turns away (server.ts:61-66, 190):
\* the handler returns at once.
Unauthorized ==
  /\ ~shutdown
  /\ \E h \in Presented(gate) :
       /\ ~requireAuthIfConfigured(gate, h)
       /\ gateLog' = GateLog(h, FALSE)
  /\ UNCHANGED << storeVars, postVars, sessVars, shutdown, gate >>

\* The ping chunks written so far, over all connections
RECURSIVE CountKind(_, _)
CountKind(o, k) ==
  IF o = << >> THEN 0
  ELSE (IF Head(o).kind = k THEN 1 ELSE 0) + CountKind(Tail(o), k)

RECURSIVE SumOver(_, _)
SumOver(f, S) ==
  IF S = {} THEN 0
  ELSE LET x == CHOOSE y \in S : TRUE IN f[x] + SumOver(f, S \ {x})

PingsWritten == SumOver([s \in Sess |-> CountKind(out[s], "comment")], Sess)

\* res.write of the ping comment (server.ts:254); a throw is ignored
PingWrite(sk, o) == IF Writable(sk) THEN Append(o, [kind |-> "comment"]) ELSE o

\* The pingTimer callback (server.ts:252-258)
Ping(s) ==
  /\ ~Exited
  /\ timer[s]
  /\ PingsWritten < MaxPings
  /\ out' = [out EXCEPT ![s] = PingWrite(sink[s], @)]
  /\ UNCHANGED << storeVars, postVars, clients, st, timer, sink, tried, regAt,
                  shutdown, gateVars >>

\* The subscriber's transport fails: from now on res.write throws.  The close
\* event of the request has not been handled yet.
SinkBreak(s) ==
  /\ ~Exited
  /\ st[s] = "streaming"
  /\ sink[s] = "open"
  /\ sink' = [sink EXCEPT ![s] = "broken"]
  /\ UNCHANGED << storeVars, postVars, clients, st, timer, out, tried, regAt,
                  shutdown, gateVars >>

\* The subscriber stops reading: its socket takes no more bytes, and what
\* res.write accepts from now on stays in the response's buffer.
SinkStall(s) ==
  /\ ~Exited
  /\ st[s] = "streaming"
  /\ sink[s] = "open"
  /\ sink' = [sink EXCEPT ![s] = "stalled"]
  /\ UNCHANGED << storeVars, postVars, clients, st, timer, out, tried, regAt,
                  shutdown, gateVars >>

\* a removal by position that takes the last client when the one asked for
\* is not in the set
CloseClients_Splice(cl, s) ==
  IF s \in Members(cl) THEN SetDelete(cl, s) ELSE SubSeq(cl, 1, Len(cl) - 1)

\* a close listener that forgets clients.delete
CloseClients_Keep(cl, s) == cl

\* What the close listener leaves of the client set (server.ts:265)
CloseClients(cl, s) == SetDelete(cl, s)

\* a close listener that forgets clearInterval
CloseTimer_Keep(t) == t

\* What the close listener leaves of the timer (server.ts:264)
CloseTimer(t) == FALSE

\* req.on("close") (server.ts:263-266): the connection is gone, whether the
\* subscriber left, the transport failed or the response was ended.
ReqClose(s) ==
  /\ ~Exited
  /\ st[s] \in {"streaming", "ended"}
  /\ st' = [st EXCEPT ![s] = "closed"]
  /\ timer' = [timer EXCEPT ![s] = CloseTimer(@)]
  /\ clients' = CloseClients(clients, s)
  /\ sink' = [sink EXCEPT ![s] = "closed"]
  /\ UNCHANGED << storeVars, postVars, out, tried, regAt, shutdown, gateVars >>

\* ------------------------------------------------------------------ SIGTERM
\* a SIGTERM loop that forgets clearInterval
SigtermTimer_Keep(cl, t) == t

\* The timers the SIGTERM loop leaves running (server.ts:300-303)
SigtermTimer(cl, t) == [s \in Sess |-> IF s \in Members(cl) THEN FALSE ELSE t[s]]

\* clients.clear() (server.ts:304)
SigtermClients(cl) == << >>

\* process.on("SIGTERM") (server.ts:299-306): end every client's response,
\* clear its timer, clear the set, stop accepting connections.
Sigterm ==
  /\ ~Exited
  /\ sink' = [s \in Sess |->
       IF s \in Members(clients) /\ Writable(sink[s]) THEN "ended" ELSE sink[s]]
  /\ st' = [s \in Sess |-> IF s \in Members(clients) THEN "ended" ELSE st[s]]
  /\ timer' = SigtermTimer(clients, timer)
  /\ clients' = SigtermClients(clients)
  /\ shutdown' = TRUE
  /\ UNCHANGED << storeVars, postVars, out, tried, regAt, gateVars >>

Next ==
  \/ \E r \in Reqs : PostStart(r)
  \/ \E r \in Reqs, n \in ChunkSizes : PostData(r, n)
  \/ \E r \in Reqs, p \in Payloads : PostEnd(r, p)
  \/ \E r \in Reqs : PostError(r)
  \/ \E s \in Sess : Connect(s)
  \/ GetJson
  \/ \E s \in Sess : Ping(s)
  \/ \E s \in Sess : SinkBreak(s)
  \/ \E s \in Sess : ReqClose(s)
  \/ Sigterm

Spec == Init /\ [][Next]_vars

\* The warm process with a single subscriber: connection 1 is the only one
\* that arrives.
NextWarm ==
  \/ \E r \in Reqs : PostStart(r)
  \/ \E r \in Reqs, n \in ChunkSizes : PostData(r, n)
  \/ \E r \in Reqs, p \in Payloads : PostEnd(r, p)
  \/ \E r \in Reqs : PostError(r)
  \/ Connect(1)
  \/ GetJson
  \/ Ping(1)
  \/ SinkBreak(1)
  \/ ReqClose(1)
  \/ Sigterm

SpecWarm == InitWarm /\ [][NextWarm]_vars

\* The process behind the gate, with a single subscriber
NextAuth ==
  \/ \E r \in Reqs : PostStart(r)
  \/ \E r \in Reqs, n \in ChunkSizes : PostData(r, n)
  \/ \E r \in Reqs, p \in Payloads : PostEnd(r, p)
  \/ \E r \in Reqs : PostError(r)
  \/ Connect(1)
  \/ GetJson
  \/ Unauthorized
  \/ Ping(1)
  \/ SinkBreak(1)
  \/ ReqClose(1)
  \/ Sigterm

SpecAuth == InitAuth /\ [][NextAuth]_vars

\* The process with subscribers that stop reading and never resume
NextStall ==
  \/ \E r \in Reqs : PostStart(r)
  \/ \E r \in Reqs, n \in ChunkSizes : PostData(r, n)
  \/ \E r \in Reqs, p \in Payloads : PostEnd(r, p)
  \/ \E s \in Sess : Connect(s)
  \/ \E s \in Sess : Ping(s)
  \/ \E s \in Sess : SinkStall(s)
  \/ \E s \in Sess : ReqClose(s)

SpecStall == Init /\ [][NextStall]_vars

\* After SIGTERM Node ends what is left: the close event of every connection
\* whose response was ended is delivered, and a request body still being read
\* ends, fails or runs over the limit.
PostSettles(r) ==
  \/ \E n \in ChunkSizes : PostData(r, n)
  \/ \E p \in Payloads : PostEnd(r, p)
  \/ PostError(r)

\* A pending event of a connection: a close to deliver, a body read to settle
Drain ==
  \/ \E s \in Sess : ReqClose(s)
  \/ \E r \in Reqs : PostSettles(r)

\* The event loop does not sit on pending events for ever
Fairness == WF_vars(Drain)

FairSpec == Init /\ [][Next]_vars /\ Fairness

\* ---------------------------------------------------------- the demo client
\* app.js:62, the rows the page keeps
ClientMax == 100

\* Array.reverse
Reverse(q) == [i \in 1 .. Len(q) |-> q[Len(q) + 1 - i]]

\* The snapshot listener (app.js:48-56): items = data.items.slice().reverse()
SnapshotListener(items, data) == Reverse(data.items)

\* an alarm listener without the truncation
AlarmListener_NoSlice(items, data) == << data >> \o items

\* The alarm listener (app.js:58-67): items.unshift(data), then
\* items = items.slice(0, 100)
AlarmListener(items, data) ==
  SubSeq(<< data >> \o items, 1, Min(ClientMax, Len(items) + 1))

\* The page's items after its EventSource dispatched the frames fs in order
RECURSIVE ClientFold(_, _)
ClientFold(fs, items) ==
  IF fs = << >> THEN items
  ELSE LET f == Head(fs) IN
         ClientFold(Tail(fs),
           CASE f.event = "snapshot" -> SnapshotListener(items, f.data[1])
             [] f.event = "alarm"    -> AlarmListener(items, f.data[1])
             [] OTHER                -> items)

\* ------------------------------------------------- what a subscriber reads
\* The frames an SSE reader makes of the chunks written: fields gather until
\* a blank line dispatches them, comments are skipped.
NoFrame == [id |-> Null, event |-> "", data |-> << >>]

RECURSIVE ParseFrames(_, _)
ParseFrames(chunks, cur) ==
  IF chunks = << >> THEN << >>
  ELSE LET ch == Head(chunks)
           rest == Tail(chunks)
       IN CASE ch.kind = "id"    -> ParseFrames(rest, [cur EXCEPT !.id = ch.id])
            [] ch.kind = "event" -> ParseFrames(rest, [cur EXCEPT !.event = ch.event])
            [] ch.kind = "data"  ->
                 ParseFrames(rest, [cur EXCEPT !.data = Append(@, ch.data)])
            [] ch.kind = "blank" ->
                 (IF cur.data = << >> THEN << >> ELSE << cur >>)
                 \o ParseFrames(rest, NoFrame)
            [] OTHER -> ParseFrames(rest, cur)

Frames(s) == ParseFrames(out[s], NoFrame)

\* The ids of the update frames a connection was sent, in order
RECURSIVE AlarmIds(_)
AlarmIds(fs) ==
  IF fs = << >> THEN << >>
  ELSE (IF Head(fs).event = "alarm" THEN << Head(fs).id >> ELSE << >>)
       \o AlarmIds(Tail(fs))

UpdateIds(s) == AlarmIds(Frames(s))

\* The items of the snapshot frame a connection was sent
SnapshotOf(fs) == fs[1].data[1].items

SnapshotItems(s) == SnapshotOf(Frames(s))

Ids(events) == [i \in 1 .. Len(events) |-> events[i].id]

IsPrefix(p, q) == Len(p) <= Len(q) /\ SubSeq(q, 1, Len(p)) = p

Active(s) == s \in Members(clients)

\* A step that appended an event to the store
Published == appended' # appended

\* ------------------------------------------------------------------ claims
\* C1: after N accepted ingests, however they interleave with snapshot
\* queries, subscriptions and disconnects, the store holds exactly
\* min(N, MAX_CACHE) events: the most recently appended ones, oldest first.
C1_StoreHoldsLatest ==
  /\ Len(cache) = Min(Len(appended), MAX_CACHE)
  /\ cache = LastN(appended, MAX_CACHE)

\* The 101st event has been appended and the oldest one evicted, after a
\* subscriber came and went.
C1_Witness ==
  /\ Len(appended) = MAX_CACHE + 1
  /\ Len(cache) = MAX_CACHE
  /\ cache[1].id = 2
  /\ st[1] = "closed"

\* C2: the k-th event appended to the store has id k (ids start at 1, no gap,
\* no repeat), whatever the interleaving of overlapping body reads, rejected
\* and failed requests included; the counter is one past the last id.
C2_IdsGapless ==
  /\ \A k \in 1 .. Len(appended) : appended[k].id = k
  /\ nextId = Len(appended) + 1

\* Two body reads overlapped: the request that arrived second was stored
\* first, while the first one, part of its body read, is still being read.
C2_Witness ==
  /\ posts = 2
  /\ Len(appended) = 1
  /\ appended[1].id = 1
  /\ pc[1] = "reading"
  /\ total[1] = LimitBytes

\* The events appended after position a up to position b
AppendedBetween(a, b) == Ids(SubSeq(appended, a + 1, b))

\* The snapshot frame of a connection is the store as it was when the
\* connection was registered, and shares no id with its update frames.
SeamOk(s, snap, ups) ==
  /\ snap = LastN(SubSeq(appended, 1, regAt[s]), MAX_CACHE)
  /\ \A i \in 1 .. Len(snap) : \A j \in 1 .. Len(ups) : snap[i].id # ups[j]

\* C3 as claimed: the snapshot frame is the store at registration, every
\* event appended since then (until the session closes) has been delivered to
\* the session as an update exactly once, and no id is in both.
C3_Original ==
  \A s \in Sess : st[s] # "none" =>
    LET fs  == Frames(s)
        ups == AlarmIds(fs)
    IN /\ SeamOk(s, SnapshotOf(fs), ups)
       /\ Active(s) => ups = AppendedBetween(regAt[s], Len(appended))
       /\ ~Active(s) => \E k \in regAt[s] .. Len(appended) :
                          ups = AppendedBetween(regAt[s], k)

\* C3 as amended: the snapshot frame is the store at registration; every
\* event appended since then, until the session leaves the client set, has
\* been tried on the session exactly once and in order; the updates written
\* are those tried before the first write failed (all of them while the
\* response is open); no id is both in the snapshot and in an update.
C3_Amended ==
  \A s \in Sess : st[s] # "none" =>
    LET fs  == Frames(s)
        ups == AlarmIds(fs)
    IN /\ SeamOk(s, SnapshotOf(fs), ups)
       /\ Active(s) => tried[s] = AppendedBetween(regAt[s], Len(appended))
       /\ ~Active(s) => \E k \in regAt[s] .. Len(appended) :
                          tried[s] = AppendedBetween(regAt[s], k)
       /\ IsPrefix(ups, tried[s])
       /\ sink[s] = "open" => ups = tried[s]

\* A subscriber connected between two ingests: event 1 is in its snapshot,
\* event 2 came as an update.
C3_Witness ==
  /\ Active(1)
  /\ regAt[1] = 1
  /\ Ids(SnapshotItems(1)) = << 1 >>
  /\ UpdateIds(1) = << 2 >>

\* The update frames a connection was sent
RECURSIVE AlarmFrames(_)
AlarmFrames(fs) ==
  IF fs = << >> THEN << >>
  ELSE (IF Head(fs).event = "alarm" THEN << Head(fs) >> ELSE << >>)
       \o AlarmFrames(Tail(fs))

\* C4: the update frames written to one session carry strictly increasing
\* ids, each the event stored at that position of the append order, so an
\* event appended before another is received before it.
C4_UpdatesInOrder ==
  \A s \in Sess :
    LET fs == AlarmFrames(Frames(s)) IN
      /\ \A i \in 1 .. Len(fs) :
           /\ fs[i].id \in 1 .. Len(appended)
           /\ appended[fs[i].id] = fs[i].data[1]
      /\ \A i, j \in 1 .. Len(fs) : i < j => fs[i].id < fs[j].id

\* A session received two updates.
C4_Witness == \E s \in Sess : UpdateIds(s) = << 1, 2 >>

\* C9: what is written to a session starts with the snapshot frame, which
\* carries no id; every later frame is an alarm frame with one data line, the
\* event, and that event's id as its id line; nothing, keepalive included, is
\* written before the snapshot frame, and no frame is left unfinished.
C9_SessionProtocol ==
  \A s \in Sess :
    IF st[s] = "none" THEN out[s] = << >>
    ELSE LET fs == Frames(s) IN
      /\ Len(fs) >= 1
      /\ out[s][1].kind = "event"
      /\ out[s][1].event = "snapshot"
      /\ fs[1].event = "snapshot"
      /\ fs[1].id = Null
      /\ Len(fs[1].data) = 1
      /\ \A i \in 2 .. Len(fs) :
           /\ fs[i].event = "alarm"
           /\ Len(fs[i].data) = 1
           /\ fs[i].id # Null
           /\ fs[i].id = fs[i].data[1].id
      /\ out[s][Len(out[s])].kind \in {"blank", "comment"}

\* A session was sent its snapshot, then a keepalive, then an update.
C9_Witness ==
  \E s \in Sess :
    /\ Len(Frames(s)) = 2
    /\ Len(out[s]) = 8
    /\ out[s][4].kind = "comment"

\* The event the step appended
NewEvent == appended'[Len(appended')]

\* The step wrote the new event's alarm frame to connection t and nothing else
GotUpdate(t) == out'[t] = out[t] \o FrameChunks("alarm", NewEvent, NewEvent.id)

\* The step ended request r's body read by readBody's size rejection
Rejected(r) ==
  /\ pc[r] = "reading"
  /\ pc'[r] = "idle"
  /\ reply'.err = "Payload too large"

\* C5: a request whose body passes the 2 MiB limit is rejected: no body is
\* read past the limit, an event is stored only for a body within it, and the
\* rejection takes no id, stores and broadcasts nothing, and answers with the
\* 500 of the catch block on a connection that was destroyed, never the 204.
C5_OversizedRejected ==
  [][ /\ \A r \in Reqs : pc'[r] = "reading" => total'[r] <= LimitBytes
      /\ Published =>
           \E r \in Reqs : /\ pc[r] = "reading"
                           /\ pc'[r] = "idle"
                           /\ total[r] <= LimitBytes
                           /\ reply'.err = ""
      /\ \A r \in Reqs : Rejected(r) =>
           /\ nextId' = nextId
           /\ cache' = cache
           /\ appended' = appended
           /\ out' = out
           /\ tried' = tried
           /\ reply'.status = CatchStatus
           /\ reply'.status # 204
           /\ reply'.destroyed ]_vars

\* A body over the limit was answered 500 with nothing stored, while a
\* subscriber was listening.
C5_Witness ==
  /\ reply.err = "Payload too large"
  /\ reply.status = CatchStatus
  /\ appended = << >>
  /\ Active(1)
  /\ tried[1] = << >>

Gone(s) == st[s] \in {"ended", "closed"}

\* C6: a session whose close was handled (or that SIGTERM removed) is not in
\* the client set; no later step tries a write on it or writes to it; a
\* later publish still answers 204 and tries every remaining client, writing
\* the update to each one whose response is open.
C6_ClosedUntouched ==
  /\ [](\A s \in Sess : Gone(s) => ~Active(s))
  /\ [][ \A s \in Sess : Gone(s) => tried'[s] = tried[s] /\ out'[s] = out[s] ]_vars
  /\ [][ Published =>
          /\ reply'.status = 204
          /\ \A t \in Sess : Active(t) =>
               /\ tried'[t] = Append(tried[t], NewEvent.id)
               /\ sink[t] = "open" => GotUpdate(t) ]_vars

\* Session 1 was closed after the first event; the second event was
\* published to session 2 alone.
C6_Witness ==
  /\ st[1] = "closed"
  /\ tried[1] = << 1 >>
  /\ Active(2)
  /\ tried[2] = << 1, 2 >>
  /\ UpdateIds(2) = << 1, 2 >>
  /\ reply.status = 204

\* C7: when a publish meets a client whose write fails, every other client
\* whose response is open still gets the update, the event is stored and the
\* sender is answered 204.
C7_FailureIsolated ==
  [][ (Published /\ \E s \in Sess : Active(s) /\ sink[s] # "open") =>
        /\ Len(appended') = Len(appended) + 1
        /\ cache'[Len(cache')] = NewEvent
        /\ reply'.status = 204
        /\ ~reply'.destroyed
        /\ \A t \in Sess : (Active(t) /\ sink[t] = "open") => GotUpdate(t) ]_vars

\* The write to session 1 failed, session 2, later in the set, got the
\* update, and the sender got 204.
C7_Witness ==
  /\ Active(1) /\ Active(2)
  /\ sink[1] = "broken" /\ sink[2] = "open"
  /\ tried[1] = << 1 >> /\ UpdateIds(1) = << >>
  /\ UpdateIds(2) = << 1 >>
  /\ Len(cache) = 1
  /\ reply.status = 204

\* C8 as claimed: once a publish has returned, a client whose write failed is
\* no longer in the client set.
C8_Original == \A s \in Sess : Active(s) => UpdateIds(s) = tried[s]

\* C8 as amended: a publish leaves the client set and the timers as they
\* were, whether a write failed or not, so a client whose write failed is
\* tried again by the next publish; a client leaves the set only when its
\* close is handled or at SIGTERM.
C8_Amended ==
  /\ [][ Published =>
          /\ clients' = clients
          /\ timer' = timer
          /\ \A s \in Sess : Active(s) =>
               tried'[s] = Append(tried[s], NewEvent.id) ]_vars
  /\ [][ \A s \in Sess :
          (Active(s) /\ s \notin Members(clients')) =>
            /\ st'[s] \in {"ended", "closed"}
            /\ ~Published ]_vars

\* Both publishes tried session 1, whose writes fail, and it is still a
\* client with its timer running.
C8_Witness ==
  /\ Active(1)
  /\ sink[1] = "broken"
  /\ timer[1]
  /\ tried[1] = << 1, 2 >>
  /\ UpdateIds(1) = << >>

BodyRead(r) ==
  /\ pc[r] = "reading"
  /\ pc'[r] = "idle"
  /\ reply'.err = ""

\* The step took the next id for a new event, stored it as the newest entry,
\* tried it on every client, wrote it to every client whose response is
\* open, and answered 204.
Accepted ==
  /\ Published
  /\ NewEvent.id = nextId
  /\ nextId' = nextId + 1
  /\ cache'[Len(cache')] = NewEvent
  /\ \A s \in Members(clients) :
       /\ tried'[s] = Append(tried[s], NewEvent.id)
       /\ sink[s] = "open" => GotUpdate(s)
  /\ reply'.status = 204
  /\ ~reply'.destroyed

\* The payloads declared as JSON whose text JSON.parse throws on
Unparseable ==
  { p \in Payloads :
      p.ctype = "application/json" /\ ~JsonParses(ParseInput(p.text)) }

\* The fallback record as the claim names its fields
ClaimedFallback(text) == [parseError |-> "invalid json", rawText |-> text]

\* C11 as claimed: a request whose body was read to its end is accepted,
\* whether or not its text parses, and a stored body that is not a parsed
\* JSON value is the record {parseError: "invalid json", rawText: <text>}.
C11_Original ==
  /\ [][ \A r \in Reqs : BodyRead(r) => Accepted ]_vars
  /\ [](\A k \in 1 .. Len(appended) :
          LET b == appended[k].body IN
            "json" \notin DOMAIN b =>
              /\ "rawText" \in DOMAIN b
              /\ b = ClaimedFallback(b.rawText))

\* C11 as amended: a request whose body was read to its end is accepted,
\* whether or not its text parses; the body stored for a text that does not
\* parse is the record {_parseError: "invalid json", raw: <text>}, and a
\* stored body that is not a parsed JSON value is that record of a text that
\* does not parse.
C11_Amended ==
  /\ [][ \A r \in Reqs : BodyRead(r) => Accepted ]_vars
  /\ [](\A p \in Unparseable : EventBody(p.ctype, p.text) = ParseFallback(p.text))
  /\ [](\A k \in 1 .. Len(appended) :
          LET b == appended[k].body IN
            "json" \notin DOMAIN b =>
              /\ "raw" \in DOMAIN b
              /\ b = ParseFallback(b.raw)
              /\ b.raw # ""
              /\ ~JsonParses(ParseInput(b.raw)))

\* The text not-json was posted while a subscriber was listening: it is
\* stored as event 1 with the fallback body, was written to the subscriber,
\* and the request was answered 204.
C11_Witness ==
  /\ Len(appended) = 1
  /\ appended[1] = StoredEvent(1, ParseFallback("not-json"))
  /\ cache = appended
  /\ Active(1)
  /\ UpdateIds(1) = << 1 >>
  /\ reply.status = 204

\* C12: an append to a full store evicts the oldest retained event and no
\* other: every other event moves up one place, in the same order and
\* unchanged, and the new event is the newest entry.
C12_EvictsOldest ==
  [][ (Published /\ Len(cache) = MAX_CACHE) =>
        /\ Len(cache') = MAX_CACHE
        /\ \A i \in 1 .. MAX_CACHE - 1 : cache'[i] = cache[i + 1]
        /\ cache'[MAX_CACHE] = NewEvent
        /\ \A i \in 1 .. MAX_CACHE : cache'[i] # cache[1] ]_vars

\* The store was full when the 101st event came, with a subscriber
\* listening: event 1 is gone, events 2 to 101 are retained in order.
C12_Witness ==
  /\ Len(appended) = MAX_CACHE + 1
  /\ cache = SubSeq(appended, 2, MAX_CACHE + 1)
  /\ Ids(cache) = [i \in 1 .. MAX_CACHE |-> i + 1]
  /\ Active(1)
  /\ UpdateIds(1) = << MAX_CACHE, MAX_CACHE + 1 >>

\* The header carries the configured user name and password under the
\* Basic scheme
RightCredentials(g, h) ==
  /\ ToLower(h.scheme) = "basic"
  /\ h.decoded = g.user \o << ":" >> \o g.pass

\* The step handed a request to the ingestion handler or registered a
\* subscription
HandlerReached ==
  \/ posts' # posts
  \/ \E r \in Reqs : pc[r] = "idle" /\ pc'[r] = "reading"
  \/ \E s \in Sess : st[s] = "none" /\ st'[s] # "none"
  \/ clients' # clients /\ Len(clients') > Len(clients)

\* C13: with the gate configured, a request goes on only with the
\* configured credentials; any other request is answered 401 with the Basic
\* challenge and the text Unauthorized, and leaves the store, the id
\* counter, the client set, every response and every request in flight as
\* they were; ingestion and subscription are reached only past the gate.
C13_GateRejects ==
  /\ [](gate # Unconfigured /\ gateLog.seen =>
          /\ gateLog.passed <=> RightCredentials(gate, gateLog.auth)
          /\ ~gateLog.passed =>
               /\ gateLog.status = 401
               /\ gateLog.challenge = "Basic realm=\"sdwan-webhook\""
               /\ gateLog.body = "Unauthorized")
  /\ [][ (gateLog' # gateLog /\ ~gateLog'.passed) =>
          UNCHANGED << storeVars, postVars, sessVars, shutdown >> ]_vars
  /\ [][ HandlerReached =>
          /\ gateLog'.passed
          /\ RightCredentials(gate, gateLog'.auth) ]_vars

\* A request with the right user name and a wrong password was turned away
\* while event 1 was stored and a subscriber had received it.
C13_Witness ==
  /\ gate = Configured
  /\ gateLog.seen
  /\ ~gateLog.passed
  /\ gateLog.auth = [scheme |-> "Basic", decoded |-> << "u", ":", "x" >>]
  /\ Ids(cache) = << 1 >>
  /\ nextId = 2
  /\ Active(1)
  /\ UpdateIds(1) = << 1 >>

Stalled(s) == Active(s) /\ sink[s] = "stalled"

\* C14: with a client whose socket takes no more bytes, a request whose
\* body was read to its end is stored, published and answered 204 in the
\* same step; every client whose response is open is written the update;
\* and the send to the stalled client is one frame of at most four chunks
\* handed to res.write, which keeps them without waiting.
C14_PublishNeverBlocks ==
  [][ \A r \in Reqs : (BodyRead(r) /\ \E s \in Sess : Stalled(s)) =>
        /\ Accepted
        /\ pc'[r] = "idle"
        /\ \A t \in Sess : (Active(t) /\ sink[t] = "open") => GotUpdate(t)
        /\ \A s \in Sess : Stalled(s) =>
             /\ GotUpdate(s)
             /\ Len(out'[s]) - Len(out[s]) <= 4
             /\ sink'[s] = "stalled"
        /\ clients' = clients ]_vars

\* Client 1 stopped reading before two events were published: both were
\* stored and answered 204, client 2 was written both, and both frames were
\* handed to client 1's response.
C14_Witness ==
  /\ Stalled(1)
  /\ Active(2) /\ sink[2] = "open"
  /\ Ids(cache) = << 1, 2 >>
  /\ UpdateIds(2) = << 1, 2 >>
  /\ tried[1] = << 1, 2 >>
  /\ Len(out[1]) = 3 + 4 + 4
  /\ reply.status = 204
  /\ \A r \in Reqs : pc[r] = "idle"

\* The step answered request r with the success acknowledgement
Acked(r) ==
  /\ pc[r] = "reading"
  /\ pc'[r] = "idle"
  /\ reply'.status = 204

\* C15: when a request is answered 204, the step has taken its id, the
\* event is the newest entry of the store, and its update has been tried on
\* every client that was in the set when it was published, on no other
\* connection, and once; and after a 204 the store is never empty.
C15_StoredBeforeAck ==
  /\ [][ \A r \in Reqs : Acked(r) =>
          /\ appended' = Append(appended, NewEvent)
          /\ NewEvent.id = nextId
          /\ cache' # << >>
          /\ cache'[Len(cache')] = NewEvent
          /\ \A s \in Sess :
               tried'[s] = IF s \in Members(clients)
                           THEN Append(tried[s], NewEvent.id)
                           ELSE tried[s]
          /\ clients' = clients ]_vars
  /\ [](reply.status = 204 =>
          /\ cache # << >>
          /\ cache[Len(cache)] = appended[Len(appended)])

\* Two requests were answered 204: client 1 was tried for both events,
\* client 2, which connected between them, has the first in its snapshot and
\* was tried for the second.
C15_Witness ==
  /\ reply.status = 204
  /\ Ids(cache) = << 1, 2 >>
  /\ Active(1) /\ Active(2)
  /\ tried[1] = << 1, 2 >>
  /\ tried[2] = << 2 >>
  /\ Ids(SnapshotItems(2)) = << 1 >>
  /\ posts = 2
  /\ \A r \in Reqs : pc[r] = "idle"

\* The step wrote a keepalive comment to connection s
PingWritten(s) == out'[s] = Append(out[s], [kind |-> "comment"])

\* C16: a connection whose close was handled stays closed, its timer is off
\* and stays off, and nothing more is written to or tried on it; a timer
\* runs only for a streaming connection, and a keepalive is written only to
\* a streaming connection whose timer runs.
C16_ClosedTerminal ==
  /\ [](\A s \in Sess : st[s] = "closed" => ~timer[s] /\ ~Active(s))
  /\ [](\A s \in Sess : timer[s] => st[s] = "streaming")
  /\ [][ \A s \in Sess : st[s] = "closed" =>
          /\ st'[s] = "closed"
          /\ ~timer'[s]
          /\ out'[s] = out[s]
          /\ tried'[s] = tried[s] ]_vars
  /\ [][ \A s \in Sess : PingWritten(s) =>
          /\ st[s] = "streaming"
          /\ timer[s]
          /\ st'[s] = "streaming" ]_vars

\* Connection 1 was sent a keepalive and then closed; an event published
\* afterwards went to connection 2 only.
C16_Witness ==
  /\ st[1] = "closed"
  /\ ~timer[1]
  /\ Len(out[1]) = 4
  /\ out[1][4].kind = "comment"
  /\ tried[1] = << >>
  /\ Active(2)
  /\ timer[2]
  /\ UpdateIds(2) = << 1 >>

\* The step handled the close of connection s
CloseHandled(s) == st[s] # "closed" /\ st'[s] = "closed"

\* C17: the close of a connection that is no longer in the client set (its
\* close comes after SIGTERM cleared the set) is handled to its end and
\* leaves the set, the other connections' timers, the store, the id counter
\* and every response as they were; and in every state, the close
\* listener's removal applied to a connection that is not in the set, or
\* applied a second time, changes nothing.
C17_UnsubscribeIdempotent ==
  /\ [][ \A s \in Sess : (CloseHandled(s) /\ ~Active(s)) =>
          /\ clients' = clients
          /\ \A t \in Sess \ {s} : timer'[t] = timer[t] /\ st'[t] = st[t]
          /\ ~timer'[s]
          /\ UNCHANGED << storeVars, postVars, out, tried >> ]_vars
  /\ [](\A s \in Sess :
          /\ ~Active(s) => CloseClients(clients, s) = clients
          /\ CloseClients(CloseClients(clients, s), s) = CloseClients(clients, s)
          /\ CloseTimer(CloseTimer(timer[s])) = CloseTimer(timer[s]))

\* SIGTERM cleared a set of two clients after an event was published; both
\* closes were handled afterwards, and the store and the counter are as
\* they were.
C17_Witness ==
  /\ shutdown
  /\ st[1] = "closed" /\ st[2] = "closed"
  /\ clients = << >>
  /\ tried[1] = << 1 >> /\ tried[2] = << 1 >>
  /\ Ids(cache) = << 1 >>
  /\ nextId = 2

Max(a, b) == IF a > b THEN a ELSE b

\* The lowest id the store can still hold
OldestId == Max(1, nextId - MAX_CACHE)

\* C18: the ids retained are consecutive and ascending, the newest is
\* nextId - 1, and together they are exactly max(1, nextId - 100) up to
\* nextId - 1.
C18_StoreFromCounter ==
  /\ Len(cache) = nextId - OldestId
  /\ \A i \in 1 .. Len(cache) : cache[i].id = OldestId + i - 1
  /\ \A i \in 1 .. Len(cache) - 1 : cache[i + 1].id = cache[i].id + 1
  /\ cache # << >> => cache[Len(cache)].id = nextId - 1
  /\ { cache[i].id : i \in 1 .. Len(cache) } = OldestId .. nextId - 1

\* The counter is at 102 after an eviction, with a client whose writes fail
\* still in the set: ids 2 to 101 are retained.
C18_Witness ==
  /\ nextId = MAX_CACHE + 2
  /\ OldestId = 2
  /\ cache[1].id = 2
  /\ cache[MAX_CACHE].id = MAX_CACHE + 1
  /\ Active(1)
  /\ sink[1] = "broken"

\* The demo page's items once it has processed everything written to
\* connection s (app.js:8: items starts empty)
ClientItems(s) == ClientFold(Frames(s), << >>)

\* C19: for a connection that is in the client set and whose response has
\* taken every write, the demo page's items, after the snapshot frame and
\* every update frame written so far, are the store's events newest first.
C19_ClientRefinesStore ==
  \A s \in Sess :
    (Active(s) /\ sink[s] = "open") =>
      /\ ClientItems(s) = Reverse(cache)
      /\ Len(ClientItems(s)) <= ClientMax

\* The page connected when the store held 99 events and has processed two
\* updates since: it shows events 101 down to 2.
C19_Witness ==
  /\ Active(1)
  /\ sink[1] = "open"
  /\ regAt[1] = MAX_CACHE - 1
  /\ UpdateIds(1) = << MAX_CACHE, MAX_CACHE + 1 >>
  /\ Len(ClientItems(1)) = ClientMax
  /\ ClientItems(1)[1].id = MAX_CACHE + 1
  /\ ClientItems(1)[ClientMax].id = 2
=============================================================================
